---- MODULE Spec2Model ----
(***************************************************************************)
(* Model of src/main.py: the ColorChecker image generator for ITU-R        *)
(* BT.2100.  main_func fetches the reference chart, converts it to linear  *)
(* RGB, scales it to the target brightness, applies the OETF, and          *)
(* make_color_checker_image paints one mosaic canvas and 24 single-patch   *)
(* canvases, quantizing each to 16 bit on write.                           *)
(*                                                                         *)
(* Numbers.  Python floats are modelled as exact rationals.  Canvas and    *)
(* patch values are integers counted in units of 1/FloatDen; the geometry  *)
(* expressions of lines 204-216 and 244 are evaluated over exact           *)
(* fractions and truncated the way int() truncates.  For the               *)
(* configurations enumerated here the float results of CPython agree with  *)
(* the exact ones (226.5, 471.9, 840.0, 349.2, 51.9, 240.0, 10.8, 288.0).  *)
(*                                                                         *)
(* Canvas.  A canvas is a function from pixels <<y, x>> to an RGB triple.  *)
(* Slice assignment writes whole rectangles, so a canvas is constant on    *)
(* every cell of the arrangement of the edges of the rectangles assigned   *)
(* into it; the model keeps, of each canvas, the pixels within Border of   *)
(* every such edge and of the canvas edges.                                *)
(***************************************************************************)
EXTENDS Integers, Sequences, FiniteSets

(* ------------------------------------------------------------------ *)
(* Program constants (src/main.py lines 14-80)                         *)
(* ------------------------------------------------------------------ *)
TARGET_BRIGHTNESS == 100

IMG_WIDTH == 1920

IMG_HEIGHT == 1080

\* 1 / 4.5 as the fraction 2/9
COLOR_CHECKER_SIZE == <<2, 9>>

\* 0.01 as the fraction 1/100
COLOR_CHECKER_PADDING == <<1, 100>>

IMG_MAX_LEVEL == 65535

\* COLOR_SPACE._name of colour.models.BT2020_COLOURSPACE
COLOR_SPACE_name == "ITU-R BT.2020"

COLOR_CHECKER_EACH_NAME ==
  << "dark skin", "light skin", "blue sky", "foliage",
     "blue flower", "bluish green", "orange", "purplish blue",
     "moderate red", "purple", "yellow green", "orange yellow",
     "blue", "green", "red", "yellow",
     "magenta", "cyan", "white 9.5", "neutral 8",
     "neutral 6.5", "neutral 5", "neutral 3.5", "black 2" >>

(* ------------------------------------------------------------------ *)
(* Bounds of the model                                                 *)
(* ------------------------------------------------------------------ *)
\* pixels kept on each side of every rectangle edge
Border == 1

\* number of reference data sets the chart provider may return
NumCharts == 2

\* half-width, in units of 1/FloatDen, of the windows of quantizer inputs
QRange == 25

(* ------------------------------------------------------------------ *)
(* Arithmetic helpers                                                  *)
(* ------------------------------------------------------------------ *)
Min(a, b) == IF a < b THEN a ELSE b

Max(a, b) == IF a > b THEN a ELSE b

\* int(n / d) of Python for d > 0: truncation toward zero
Trunc(n, d) == IF n >= 0 THEN n \div d ELSE -((-n) \div d)

\* denominator of the fixed-point representation of float values; a
\* multiple of 200 so that 0.5, 0.1 and 0.005 are exact, and small enough
\* for v * IMG_MAX_LEVEL to stay below 2^31 for |v| < 2
FloatDen == 125 * 128

\* the float 0.0 .. 1.0 value num/den in units of 1/FloatDen
Float(num, den) == (num * FloatDen) \div den

(* ------------------------------------------------------------------ *)
(* Quantization (lines 259-273)                                        *)
(* ------------------------------------------------------------------ *)
\* variant: the fraction is dropped instead of rounded
np_round_floor(n, d) == n \div d

\* np.round of the real number n / d (d > 0): round half to even
np_round(n, d) ==
  LET q == n \div d
      r == n - q * d
  IN  IF 2 * r < d THEN q
      ELSE IF 2 * r > d THEN q + 1
      ELSE IF q % 2 = 0 THEN q ELSE q + 1

\* the outcomes a build can give for the float64 -> uint16 conversion
CastModes == {"wrap", "saturate"}

\* np.uint16 of the integral float r.  In range the conversion is exact;
\* out of range the C conversion is undefined: builds either reduce
\* modulo 2^16 or saturate.
np_uint16(r, mode) ==
  IF r >= 0 /\ r <= IMG_MAX_LEVEL THEN r
  ELSE IF mode = "wrap" THEN r % (IMG_MAX_LEVEL + 1)
  ELSE IF r < 0 THEN 0 ELSE IMG_MAX_LEVEL

\* _get_16bit_img on one value v (in units of 1/FloatDen):
\* np.uint16(np.round(v * IMG_MAX_LEVEL))
get_16bit(v, mode) == np_uint16(np_round(v * IMG_MAX_LEVEL, FloatDen), mode)

(* ------------------------------------------------------------------ *)
(* The numeric library (package colour) and the reference data         *)
(* The library is outside this repository.  Each of its functions is   *)
(* represented by a fixed deterministic stand-in over the fixed-point  *)
(* values, chosen so that out-of-gamut (negative, above 1) results     *)
(* occur; the two transfer functions are distinct and non-linear.      *)
(* ------------------------------------------------------------------ *)
\* numbers of patches the chart provider may return
PatchCounts == {23, 24, 25}

\* colour.COLOURCHECKERS.get(cc_name) followed by xyY_to_XYZ: data set c
\* with n patches, as a 0-indexed array of XYZ triples
ColourCheckerXYZ(c, n) ==
  [i \in 0..(n - 1) |->
     << Float((3 * i + c) % 11, 10),
        Float((5 * i + 2 * c) % 11, 10),
        Float((7 * i + c) % 11, 10) >>]

\* colour.models.XYZ_to_RGB on one triple: a fixed linear map
XYZ_to_RGB(xyz) ==
  << xyz[1] + (xyz[1] - xyz[2]) \div 2,
     xyz[2] + (xyz[2] - xyz[3]) \div 2,
     xyz[3] + (xyz[3] - xyz[1]) \div 2 >>

\* colour.models.eotf_reverse_BT2100_HLG on one value (luminance in cd/m2)
eotf_reverse_BT2100_HLG(x) ==
  IF x <= 50 * FloatDen THEN x \div 100 ELSE (x + 50 * FloatDen) \div 200

\* colour.models.oetf_ST2084 on one value (luminance in cd/m2)
oetf_ST2084(x) ==
  IF x <= 20 * FloatDen THEN x \div 50 ELSE (x + 60 * FloatDen) \div 200

\* lines 54-61: the selection of OETF_FUNC from OETF_TYPE
SelectOETF(type) ==
  IF type = "HLG" THEN "eotf_reverse_BT2100_HLG"
  ELSE IF type = "ST2084" THEN "oetf_ST2084"
  ELSE "None"

\* a call oetf_func(x) of a callable
CallOETF(func, x) ==
  IF func = "eotf_reverse_BT2100_HLG" THEN eotf_reverse_BT2100_HLG(x)
  ELSE oetf_ST2084(x)

\* transfer-function names the configuration may hold (line 54)
OetfTypes == {"HLG", "ST2084", "BT1886"}

\* grid configurations (lines 68-69) the model enumerates
Grids == {<<6, 4>>, <<4, 4>>, <<1, 1>>, <<5, 4>>}

(* ------------------------------------------------------------------ *)
(* Geometry (lines 200-216, 244-247)                                   *)
(* ------------------------------------------------------------------ *)
\* lines 204-208 / 209-213: int(size / 2.0 - (IMG_HEIGHT * SIZE * num / 2.0
\*   + (IMG_HEIGHT * PADDING * (num / 2.0 - 0.5)) / 2.0)), over the common
\* denominator 4 * SD * PD
PatchStart(size, num) ==
  LET SN == COLOR_CHECKER_SIZE[1]
      SD == COLOR_CHECKER_SIZE[2]
      PN == COLOR_CHECKER_PADDING[1]
      PD == COLOR_CHECKER_PADDING[2]
  IN  Trunc(2 * SD * PD * size
              - 2 * PD * SN * IMG_HEIGHT * num
              - SD * PN * IMG_HEIGHT * (num - 1),
            4 * SD * PD)

\* variant: the horizontal start computed from the canvas height
PatchStH_height(hnum) == PatchStart(IMG_HEIGHT, hnum)

\* line 204
PatchStH(hnum) == PatchStart(IMG_WIDTH, hnum)

\* line 209
PatchStV(vnum) == PatchStart(IMG_HEIGHT, vnum)

\* line 214: int(img_height * COLOR_CHECKER_SIZE)
MosaicPatchWidth ==
  Trunc(IMG_HEIGHT * COLOR_CHECKER_SIZE[1], COLOR_CHECKER_SIZE[2])

\* line 216: int(img_height * COLOR_CHECKER_PADDING)
MosaicPatchSpace ==
  Trunc(IMG_HEIGHT * COLOR_CHECKER_PADDING[1], COLOR_CHECKER_PADDING[2])

\* lines 200-201: the grid the paint loops iterate over
h_num == 6

v_num == 4

\* variant: the column taken modulo the number of rows
HIdx_vnum(idx) == idx % v_num

\* line 229 / 228
HIdx(idx) == idx % h_num

VIdx(idx) == idx \div h_num

\* line 232 / 233: start of a mosaic rectangle
MosaicSt(start, width, space, k) == start + (width + space) * k

\* line 244: int(img_width * 0.15)
SinglePatchWidth == Trunc(IMG_WIDTH * 15, 100)

\* variant: the whole patch size subtracted
SingleSt_whole(size, patch) == (size \div 2) - patch

\* line 246 / 247: (size // 2) - (patch // 2)
SingleSt(size, patch) == (size \div 2) - (patch \div 2)

(* ------------------------------------------------------------------ *)
(* Canvases and slice assignment                                       *)
(* ------------------------------------------------------------------ *)
\* a Python slice bound i on an axis of length n
SliceBound(i, n) == IF i < 0 THEN Max(i + n, 0) ELSE Min(i, n)

\* the indices selected by the slice st : st + len on an axis of length n
SliceRange(st, len, n) == SliceBound(st, n) .. (SliceBound(st + len, n) - 1)

\* number of indices in SliceRange
SliceLen(st, len, n) ==
  Max(SliceBound(st + len, n) - SliceBound(st, n), 0)

\* coordinates kept around the edge e on an axis of length n
Around(e, n) == {c \in (e - Border)..(e + Border - 1) : c >= 0 /\ c < n}

\* the edges, on an axis of length n, of the slice st : st + len
SliceEdges(st, len, n) == {SliceBound(st, n), SliceBound(st + len, n)}

\* coordinates kept on an axis of length n with the given rectangle edges
Kept(edges, n) == UNION {Around(e, n) : e \in edges \cup {0, n}}

\* edges, on an axis of length n, of the mosaic rectangles 0..(num - 1)
\* that start at st
MosaicEdges(st, num, n) ==
  UNION {SliceEdges(MosaicSt(st, MosaicPatchWidth, MosaicPatchSpace, k),
                    MosaicPatchWidth, n) : k \in 0..(num - 1)}

\* edges, on an axis of length n, of the single-patch rectangle
SingleEdges(n) == SliceEdges(SingleSt(n, SinglePatchWidth), SinglePatchWidth, n)

\* pixels kept of img_all_patch, which only the mosaic loop assigns
MosaicPixels(sv, sh) ==
  Kept(MosaicEdges(sv, v_num, IMG_HEIGHT), IMG_HEIGHT)
    \X Kept(MosaicEdges(sh, h_num, IMG_WIDTH), IMG_WIDTH)

\* pixels kept of img_each_patch, which only the single-patch loop assigns
SinglePixels == Kept(SingleEdges(IMG_HEIGHT), IMG_HEIGHT) \X Kept(SingleEdges(IMG_WIDTH), IMG_WIDTH)

\* the float 0.0 in every channel
Zero3 == <<0, 0, 0>>

\* np.zeros((img_height, img_width, 3)) on the kept pixels
np_zeros(pixels) == [p \in pixels |-> Zero3]

\* whether img[sv:sv+ph, sh:sh+pw] = patch has matching shapes (numpy
\* raises ValueError otherwise: a (ph, pw, 3) block does not broadcast)
ShapeOK(sv, ph, sh, pw) ==
  /\ SliceLen(sv, ph, IMG_HEIGHT) = ph
  /\ SliceLen(sh, pw, IMG_WIDTH) = pw

\* img[sv:sv+ph, sh:sh+pw] = patch, patch filled with colour
AssignRect(img, sv, ph, sh, pw, colour) ==
  [p \in DOMAIN img |->
     IF /\ p[1] \in SliceRange(sv, ph, IMG_HEIGHT)
        /\ p[2] \in SliceRange(sh, pw, IMG_WIDTH)
     THEN colour ELSE img[p]]

\* img[:, :, ::-1]: the channel order reversed
ReverseChannels(img) == [p \in DOMAIN img |-> <<img[p][3], img[p][2], img[p][1]>>]

\* _get_16bit_img (line 273) on a whole image
get_16bit_img(img, mode) ==
  [p \in DOMAIN img |-> << get_16bit(img[p][1], mode),
                           get_16bit(img[p][2], mode),
                           get_16bit(img[p][3], mode) >>]

(* ------------------------------------------------------------------ *)
(* File names (lines 217-218, 239, 253-255)                            *)
(* ------------------------------------------------------------------ *)
\* the character of one decimal digit
Digit(d) == <<"0", "1", "2", "3", "4", "5", "6", "7", "8", "9">>[d + 1]

\* "{:02d}".format(n) for 0 <= n < 1000: the decimal digits, at least two
Format02d(n) ==
  IF n < 100 THEN <<Digit(n \div 10), Digit(n % 10)>>
  ELSE <<Digit(n \div 100), Digit((n \div 10) % 10), Digit(n % 10)>>

\* variant: a format string without the ordinal and the patch name
MeasureFileName_plain(cs, oetf, ordinal, name) ==
  << "./output/ColorChecker_Measure_Patch_", cs, "_", oetf, "_" >>
    \o << "0", "0" >> \o << "_", "", ".tiff" >>

\* measure_file_str.format(cs, oetf, ordinal, name)
MeasureFileName(cs, oetf, ordinal, name) ==
  << "./output/ColorChecker_Measure_Patch_", cs, "_", oetf, "_" >>
    \o Format02d(ordinal) \o << "_", name, ".tiff" >>

\* all_patch_file_str.format(cs, oetf)
AllPatchFileName(cs, oetf) ==
  << "./output/ColorChecker_All_", cs, "_", oetf, "_.tiff" >>

(* ------------------------------------------------------------------ *)
(* State                                                               *)
(* ------------------------------------------------------------------ *)
VARIABLES
  COLOR_CHECKER_H_NUM, COLOR_CHECKER_V_NUM,  \* lines 68-69
  OETF_TYPE, OETF_FUNC,                      \* lines 54-61
  cast,             \* the build's float64 -> uint16 conversion
  pc,               \* position of the run
  error,            \* the exception that ended the run, or "none"
  idx,              \* loop variable of lines 227 and 250
  large_xyz, rgb, rgb_bright, rgb_prime,     \* lines 279-281, 160, 164
  patch_st_h, patch_st_v, patch_width, patch_height, patch_space,
  st_h, st_v,
  img_all_patch, img_each_patch,             \* lines 222-223
  files,            \* the file system under ./output: name -> image
  trace,            \* the stages executed so far, in order
  q_in, q_out       \* input and result of one call of _get_16bit_img

vars ==
  << COLOR_CHECKER_H_NUM, COLOR_CHECKER_V_NUM, OETF_TYPE, OETF_FUNC, cast,
     pc, error, idx, large_xyz, rgb, rgb_bright, rgb_prime,
     patch_st_h, patch_st_v, patch_width, patch_height, patch_space,
     st_h, st_v, img_all_patch, img_each_patch, files, trace, q_in, q_out >>

config == << COLOR_CHECKER_H_NUM, COLOR_CHECKER_V_NUM, OETF_TYPE, OETF_FUNC, cast >>

geometry ==
  << patch_st_h, patch_st_v, patch_width, patch_height, patch_space, st_h, st_v >>

quant == << q_in, q_out >>

\* an array not yet assigned
Unset == << >>

\* len() of a 0-indexed array
Len0(a) == Cardinality(DOMAIN a)

\* the state of everything make_color_checker_image and main_func assign,
\* before main_func runs
RunStart ==
  /\ error = "none"
  /\ idx = 0
  /\ large_xyz = Unset /\ rgb = Unset /\ rgb_bright = Unset /\ rgb_prime = Unset
  /\ patch_st_h = 0 /\ patch_st_v = 0
  /\ patch_width = 0 /\ patch_height = 0 /\ patch_space = 0
  /\ st_h = 0 /\ st_v = 0
  /\ img_all_patch = Unset /\ img_each_patch = Unset
  /\ files = Unset
  /\ trace = << >>

\* module import (lines 54-70) done, main_func (line 290) about to run
Init ==
  /\ \E g \in Grids : COLOR_CHECKER_H_NUM = g[1] /\ COLOR_CHECKER_V_NUM = g[2]
  /\ OETF_TYPE \in OetfTypes
  /\ OETF_FUNC = SelectOETF(OETF_TYPE)
  /\ cast \in CastModes
  /\ pc = "main"
  /\ RunStart
  /\ q_in = 0 /\ q_out = 0

\* an exception propagates out of main_func
Raise(exc) == pc' = "error" /\ error' = exc

(* ------------------------------------------------------------------ *)
(* main_func (lines 276-282)                                           *)
(* ------------------------------------------------------------------ *)
\* line 279: get_colorchecker_large_xyz_and_whitepoint (lines 83-108)
FetchChart ==
  /\ pc = "main"
  /\ \E c \in 1..NumCharts, n \in PatchCounts :
       large_xyz' = ColourCheckerXYZ(c, n)
  /\ pc' = "linear"
  /\ trace' = Append(trace, <<"fetch", 0>>)
  /\ UNCHANGED << config, error, idx, rgb, rgb_bright, rgb_prime, geometry,
                  img_all_patch, img_each_patch, files, quant >>

\* line 280: get_linear_rgb_from_large_xyz (lines 111-138)
LinearRGB ==
  /\ pc = "linear"
  /\ rgb' = [i \in DOMAIN large_xyz |-> XYZ_to_RGB(large_xyz[i])]
  /\ pc' = "scale"
  /\ trace' = Append(trace, <<"linear", 0>>)
  /\ UNCHANGED << config, error, idx, large_xyz, rgb_bright, rgb_prime, geometry,
                  img_all_patch, img_each_patch, files, quant >>

\* rgb * TARGET_BRIGHTNESS on one triple
Brighten(c) ==
  << c[1] * TARGET_BRIGHTNESS, c[2] * TARGET_BRIGHTNESS, c[3] * TARGET_BRIGHTNESS >>

\* line 281 -> line 160: rgb_bright = rgb * TARGET_BRIGHTNESS
ScaleBrightness ==
  /\ pc = "scale"
  /\ rgb_bright' = [i \in DOMAIN rgb |-> Brighten(rgb[i])]
  /\ pc' = "oetf"
  /\ trace' = Append(trace, <<"scale", 0>>)
  /\ UNCHANGED << config, error, idx, large_xyz, rgb, rgb_prime, geometry,
                  img_all_patch, img_each_patch, files, quant >>

\* line 164: rgb_prime = oetf_func(rgb_bright); calling None raises TypeError
ApplyOETF ==
  /\ pc = "oetf"
  /\ IF OETF_FUNC = "None"
     THEN /\ Raise("TypeError")
          /\ UNCHANGED << rgb_prime, trace >>
     ELSE /\ rgb_prime' =
               [i \in DOMAIN rgb_bright |->
                  << CallOETF(OETF_FUNC, rgb_bright[i][1]),
                     CallOETF(OETF_FUNC, rgb_bright[i][2]),
                     CallOETF(OETF_FUNC, rgb_bright[i][3]) >>]
          /\ pc' = "geometry"
          /\ trace' = Append(trace, <<"oetf", 0>>)
          /\ UNCHANGED error
  /\ UNCHANGED << config, idx, large_xyz, rgb, rgb_bright, geometry,
                  img_all_patch, img_each_patch, files, quant >>

(* ------------------------------------------------------------------ *)
(* make_color_checker_image (lines 184-256)                            *)
(* ------------------------------------------------------------------ *)
\* lines 200-223: the basic parameters and the two canvases
Geometry ==
  /\ pc = "geometry"
  /\ patch_st_h' = PatchStH(COLOR_CHECKER_H_NUM)
  /\ patch_st_v' = PatchStV(COLOR_CHECKER_V_NUM)
  /\ patch_width' = MosaicPatchWidth
  /\ patch_height' = patch_width'
  /\ patch_space' = MosaicPatchSpace
  /\ img_all_patch' = np_zeros(MosaicPixels(patch_st_v', patch_st_h'))
  /\ img_each_patch' = np_zeros(SinglePixels)
  /\ idx' = 0
  /\ pc' = "mosaic"
  /\ UNCHANGED << config, error, large_xyz, rgb, rgb_bright, rgb_prime,
                  st_h, st_v, files, trace, quant >>

\* lines 227-234: one iteration of the mosaic loop, or its end.
\* rgb[idx] past the end raises IndexError; a rectangle the canvas clips
\* raises ValueError at the assignment.
PaintMosaic ==
  /\ pc = "mosaic"
  /\ IF idx >= h_num * v_num
     THEN /\ pc' = "preview"
          /\ UNCHANGED << error, idx, st_h, st_v, img_all_patch, trace >>
     ELSE IF idx \notin DOMAIN rgb_prime
     THEN /\ Raise("IndexError")
          /\ UNCHANGED << idx, st_h, st_v, img_all_patch, trace >>
     ELSE /\ st_h' = MosaicSt(patch_st_h, patch_width, patch_space, HIdx(idx))
          /\ st_v' = MosaicSt(patch_st_v, patch_height, patch_space, VIdx(idx))
          /\ IF ShapeOK(st_v', patch_height, st_h', patch_width)
             THEN /\ img_all_patch' =
                       AssignRect(img_all_patch, st_v', patch_height,
                                  st_h', patch_width, rgb_prime[idx])
                  /\ idx' = idx + 1
                  /\ pc' = "mosaic"
                  /\ trace' = Append(trace, <<"paint", idx>>)
                  /\ UNCHANGED error
             ELSE /\ Raise("ValueError")
                  /\ UNCHANGED << idx, img_all_patch, trace >>
  /\ UNCHANGED << config, large_xyz, rgb, rgb_bright, rgb_prime,
                  patch_st_h, patch_st_v, patch_width, patch_height, patch_space,
                  img_each_patch, files, quant >>

\* cv2.imwrite(name, data): the file is created or replaced
imwrite(fs, name, data) ==
  [n \in (DOMAIN fs) \cup {name} |-> IF n = name THEN data ELSE fs[n]]

\* variant: lines 238 and 239-240 exchanged, the mosaic written before the
\* preview
Preview_after_write ==
  /\ pc = "preview"
  /\ files' = imwrite(files, AllPatchFileName(COLOR_SPACE_name, OETF_TYPE),
                      get_16bit_img(ReverseChannels(img_all_patch), cast))
  /\ pc' = "single_setup"
  /\ trace' = trace \o << <<"write_all", 0>>, <<"preview", 0>> >>
  /\ UNCHANGED << config, error, idx, large_xyz, rgb, rgb_bright, rgb_prime,
                  geometry, img_all_patch, img_each_patch, quant >>

\* line 238: preview_image(img_all_patch); the viewer leaves the state alone
Preview ==
  /\ pc = "preview"
  /\ pc' = "write_all"
  /\ trace' = Append(trace, <<"preview", 0>>)
  /\ UNCHANGED << config, error, idx, large_xyz, rgb, rgb_bright, rgb_prime,
                  geometry, img_all_patch, img_each_patch, files, quant >>

\* lines 239-240: the mosaic file
WriteMosaic ==
  /\ pc = "write_all"
  /\ files' = imwrite(files, AllPatchFileName(COLOR_SPACE_name, OETF_TYPE),
                      get_16bit_img(ReverseChannels(img_all_patch), cast))
  /\ pc' = "single_setup"
  /\ trace' = Append(trace, <<"write_all", 0>>)
  /\ UNCHANGED << config, error, idx, large_xyz, rgb, rgb_bright, rgb_prime,
                  geometry, img_all_patch, img_each_patch, quant >>

\* lines 244-248: the geometry of the single-patch rectangle
SingleSetup ==
  /\ pc = "single_setup"
  /\ patch_width' = SinglePatchWidth
  /\ patch_height' = patch_width'
  /\ st_h' = SingleSt(IMG_WIDTH, patch_width')
  /\ st_v' = SingleSt(IMG_HEIGHT, patch_height')
  /\ idx' = 0
  /\ pc' = "single"
  /\ UNCHANGED << config, error, large_xyz, rgb, rgb_bright, rgb_prime,
                  patch_st_h, patch_st_v, patch_space,
                  img_all_patch, img_each_patch, files, trace, quant >>

\* lines 250-256: one iteration of the single-patch loop, or its end
WriteSingle ==
  /\ pc = "single"
  /\ IF idx >= h_num * v_num
     THEN /\ pc' = "done"
          /\ UNCHANGED << error, idx, img_each_patch, files, trace >>
     ELSE IF idx \notin DOMAIN rgb_prime
     THEN /\ Raise("IndexError")
          /\ UNCHANGED << idx, img_each_patch, files, trace >>
     ELSE IF ~ShapeOK(st_v, patch_height, st_h, patch_width)
     THEN /\ Raise("ValueError")
          /\ UNCHANGED << idx, img_each_patch, files, trace >>
     ELSE /\ img_each_patch' =
               AssignRect(img_each_patch, st_v, patch_height,
                          st_h, patch_width, rgb_prime[idx])
          /\ files' = imwrite(files,
                              MeasureFileName(COLOR_SPACE_name, OETF_TYPE, idx + 1,
                                              COLOR_CHECKER_EACH_NAME[idx + 1]),
                              get_16bit_img(ReverseChannels(img_each_patch'), cast))
          /\ idx' = idx + 1
          /\ pc' = "single"
          /\ trace' = Append(trace, <<"write", idx + 1>>)
          /\ UNCHANGED error
  /\ UNCHANGED << config, large_xyz, rgb, rgb_bright, rgb_prime, geometry,
                  img_all_patch, quant >>

Next ==
  \/ FetchChart
  \/ LinearRGB
  \/ ScaleBrightness
  \/ ApplyOETF
  \/ Geometry
  \/ PaintMosaic
  \/ Preview
  \/ WriteMosaic
  \/ SingleSetup
  \/ WriteSingle

Spec == Init /\ [][Next]_vars

(* ------------------------------------------------------------------ *)
(* _get_16bit_img as a function of its input                           *)
(* ------------------------------------------------------------------ *)
\* values of the canvas handed to _get_16bit_img: windows around 0.0, 0.5,
\* 1.0 and 1.5
QuantInputs ==
  UNION {(c - QRange)..(c + QRange) :
           c \in {0, FloatDen \div 2, FloatDen, FloatDen + FloatDen \div 2}}

InitQuant ==
  /\ COLOR_CHECKER_H_NUM = 6 /\ COLOR_CHECKER_V_NUM = 4
  /\ OETF_TYPE = "HLG"
  /\ OETF_FUNC = SelectOETF(OETF_TYPE)
  /\ cast \in CastModes
  /\ pc = "quantize"
  /\ RunStart
  /\ q_in \in QuantInputs
  /\ q_out = 0

\* line 273 on the value q_in
Quantize ==
  /\ pc = "quantize"
  /\ q_out' = get_16bit(q_in, cast)
  /\ pc' = "quantized"
  /\ UNCHANGED << config, error, idx, large_xyz, rgb, rgb_bright, rgb_prime,
                  geometry, img_all_patch, img_each_patch, files, trace, q_in >>

NextQuant == Quantize

SpecQuant == InitQuant /\ [][NextQuant]_vars

(* ------------------------------------------------------------------ *)
(* Properties                                                          *)
(* ------------------------------------------------------------------ *)
\* v * IMG_MAX_LEVEL rounded, for the quantizer input v
Rounded(v) == np_round(v * IMG_MAX_LEVEL, FloatDen)

\* C1: quantization clamps out-of-range input: a value whose scaled,
\* rounded level is above 65535 quantizes to 65535 and a value below 0
\* quantizes to 0; nothing wraps around modulo 2^16.
C1_QuantizationClamps ==
  pc = "quantized" =>
    /\ Rounded(q_in) > IMG_MAX_LEVEL => q_out = IMG_MAX_LEVEL
    /\ q_in < 0 => q_out = 0

\* C5: for every value v in [0,1] the quantizer returns an integer nearest
\* to v * 65535, within 0..65535; 0.0 gives 0, 1.0 gives 65535 and 0.5 (the
\* exact tie 32767.5) gives 32768.
C5_QuantizationInRange ==
  (pc = "quantized" /\ q_in >= 0 /\ q_in <= FloatDen) =>
    LET diff == q_out * FloatDen - q_in * IMG_MAX_LEVEL
    IN  /\ q_out \in 0..IMG_MAX_LEVEL
        /\ 2 * diff <= FloatDen /\ 2 * diff >= -FloatDen
        /\ q_in = 0 => q_out = 0
        /\ q_in = FloatDen => q_out = 65535
        /\ 2 * q_in = FloatDen => q_out = 32768

\* C5 witness: the tie 0.5 has been quantized to 32768
C5_Witness == pc = "quantized" /\ 2 * q_in = FloatDen /\ q_out = 32768

\* the positions of the run inside make_color_checker_image at which the
\* mosaic geometry of lines 204-216 is in the variables
MosaicGeometryHeld == pc \in {"mosaic", "preview", "write_all", "single_setup"}

\* C2: for the grids (6,4), (4,4) and (1,1) the bounding box of the H*V
\* mosaic rectangles (start patch_st_h / patch_st_v, pitch patch_width +
\* patch_space) has its centre within one pixel of the canvas centre,
\* horizontally and vertically.  Twice the centre is left + right.
C2_MosaicCentred ==
  (/\ MosaicGeometryHeld
   /\ <<COLOR_CHECKER_H_NUM, COLOR_CHECKER_V_NUM>> \in {<<6, 4>>, <<4, 4>>, <<1, 1>>}) =>
    LET right == patch_st_h + (COLOR_CHECKER_H_NUM - 1) * (patch_width + patch_space)
                   + patch_width
        bottom == patch_st_v + (COLOR_CHECKER_V_NUM - 1) * (patch_height + patch_space)
                   + patch_height
    IN  /\ patch_st_h + right - IMG_WIDTH \in -2..2
        /\ patch_st_v + bottom - IMG_HEIGHT \in -2..2

\* the shared centred square of the single-patch canvases, from the canvas
\* size alone: side int(0.15 * width), origin (width // 2 - side // 2,
\* height // 2 - side // 2)
SquareSide == (15 * IMG_WIDTH) \div 100

InSquare(p) ==
  /\ p[2] >= IMG_WIDTH \div 2 - SquareSide \div 2
  /\ p[2] < IMG_WIDTH \div 2 - SquareSide \div 2 + SquareSide
  /\ p[1] >= IMG_HEIGHT \div 2 - SquareSide \div 2
  /\ p[1] < IMG_HEIGHT \div 2 - SquareSide \div 2 + SquareSide

\* the 16-bit BGR pixel a colour is written as
Written(c) == << get_16bit(c[3], cast), get_16bit(c[2], cast), get_16bit(c[1], cast) >>

\* the name of the single-patch file of ordinal k
SingleName(k) ==
  MeasureFileName(COLOR_SPACE_name, OETF_TYPE, k, COLOR_CHECKER_EACH_NAME[k])

\* the file of ordinal k holds the colour of patch k in the square and
\* zero outside
SingleFileRight(k) ==
  /\ SingleName(k) \in DOMAIN files
  /\ LET f == files[SingleName(k)]
         c == Written(rgb_prime[k - 1])
     IN  \A p \in DOMAIN f : f[p] = IF InSquare(p) THEN c ELSE Zero3

\* C3: the single-patch canvas written at iteration k holds the colour of
\* patch k at every pixel of the shared centred square and zero at every
\* pixel outside it, although one buffer is reused for all iterations: the
\* buffer and the file right after iteration k, and every file at the end.
C3_SinglePatchCanvas ==
  /\ (pc = "single" /\ idx > 0) =>
       /\ \A p \in DOMAIN img_each_patch :
            img_each_patch[p] = IF InSquare(p) THEN rgb_prime[idx - 1] ELSE Zero3
       /\ SingleFileRight(idx)
  /\ pc = "done" => \A k \in 1..24 : SingleFileRight(k)

\* C3 witness: all 24 canvases written, the last patch's colour different
\* from the first one's, pixels inside and outside the square
C3_Witness ==
  /\ pc = "done" /\ idx = 24
  /\ rgb_prime[23] # rgb_prime[0]
  /\ \E p, q \in DOMAIN img_each_patch :
       /\ InSquare(p) /\ ~InSquare(q)
       /\ files[SingleName(24)][p] = Written(rgb_prime[23])
       /\ files[SingleName(1)][p] = Written(rgb_prime[0])

\* the mosaic rectangle of patch i: grid row i \div 6, column i % 6
InMosaicRect(p, i) ==
  LET left == patch_st_h + (i % 6) * (patch_width + patch_space)
      top == patch_st_v + (i \div 6) * (patch_height + patch_space)
  IN  /\ p[2] >= left /\ p[2] < left + patch_width
      /\ p[1] >= top /\ p[1] < top + patch_height

\* C4: after the mosaic loop every pixel of the composite canvas lies in
\* exactly one mosaic rectangle and holds that patch's colour, or lies in
\* none and holds zero; no patch is overwritten by a later one.
C4_MosaicPixels ==
  pc \in {"preview", "write_all", "single_setup"} =>
    \A p \in DOMAIN img_all_patch :
      LET covering == {i \in 0..23 : InMosaicRect(p, i)}
      IN  /\ Cardinality(covering) <= 1
          /\ \A i \in covering : img_all_patch[p] = rgb_prime[i]
          /\ covering = {} => img_all_patch[p] = Zero3

\* C4 witness: the loop has finished in the reference grid; one pixel lies
\* in the last rectangle, one in the first, one in none
C4_Witness ==
  /\ pc = "preview"
  /\ COLOR_CHECKER_H_NUM = 6 /\ COLOR_CHECKER_V_NUM = 4
  /\ rgb_prime[23] # rgb_prime[0]
  /\ \E p, q, r \in DOMAIN img_all_patch :
       /\ InMosaicRect(p, 23) /\ img_all_patch[p] = rgb_prime[23]
       /\ InMosaicRect(q, 0) /\ img_all_patch[q] = rgb_prime[0]
       /\ \A i \in 0..23 : ~InMosaicRect(r, i)

\* C6: an unrecognized transfer-function name is detected before
\* processing begins: the chart is never fetched, no patch is converted and
\* no file is written.
C6_UnknownOetfDetectedFirst ==
  OETF_TYPE \notin {"HLG", "ST2084"} =>
    /\ trace = << >>
    /\ Len0(large_xyz) = 0 /\ Len0(rgb) = 0
    /\ DOMAIN files = {}

\* C7: a mismatch between the number of encoded patches and the grid
\* capacity H*V, or between the configured H*V and the 6*4 the loops iterate
\* over, aborts the run with no file written.
C7_MismatchAborts ==
  (/\ pc \in {"mosaic", "preview", "write_all", "single_setup", "single", "done"}
   /\ \/ Len0(rgb_prime) # COLOR_CHECKER_H_NUM * COLOR_CHECKER_V_NUM
      \/ COLOR_CHECKER_H_NUM * COLOR_CHECKER_V_NUM # 6 * 4) =>
    /\ pc # "done"
    /\ DOMAIN files = {}

\* a rectangle [h, h + w) x [v, v + w) inside the canvas
InCanvas(h, v, w) ==
  /\ 0 <= h /\ h + w <= IMG_WIDTH
  /\ 0 <= v /\ v + w <= IMG_HEIGHT

\* C8: in the reference configuration every mosaic rectangle and the
\* single-patch rectangle lie fully within the canvas, so no assignment is
\* clipped: whenever st_h, st_v hold a rectangle it is inside, and no
\* ValueError is raised.
C8_RectanglesInCanvas ==
  (COLOR_CHECKER_H_NUM = 6 /\ COLOR_CHECKER_V_NUM = 4) =>
    /\ error # "ValueError"
    /\ (\/ pc = "mosaic" /\ idx > 0
        \/ pc \in {"preview", "write_all", "single_setup", "single", "done"}) =>
         /\ InCanvas(st_h, st_v, patch_width)
         /\ patch_height = patch_width

\* C8 witness: the reference run has computed all 24 mosaic rectangles and
\* the single-patch rectangle
C8_Witness ==
  /\ COLOR_CHECKER_H_NUM = 6 /\ COLOR_CHECKER_V_NUM = 4
  /\ pc = "done"
  /\ Len(SelectSeq(trace, LAMBDA e : e[1] = "paint")) = 24

\* C9: a complete run writes exactly one mosaic file and 24 single-patch
\* files; the file of patch idx carries the colour-space name, the
\* transfer-function name, the ordinal idx + 1 in two digits and
\* COLOR_CHECKER_EACH_NAME[idx]; the 25 names are pairwise distinct.
C9_TwentyFiveFiles ==
  pc = "done" =>
    /\ Cardinality(DOMAIN files) = 25
    /\ Len(SelectSeq(trace, LAMBDA e : e[1] = "write_all")) = 1
    /\ Len(SelectSeq(trace, LAMBDA e : e[1] = "write")) = 24
    /\ Cardinality({n \in DOMAIN files : Len(n) = 5}) = 1
    /\ \A k \in 1..24 :
         \E n \in DOMAIN files :
           /\ Len(n) = 10
           /\ n[2] = COLOR_SPACE_name /\ n[4] = OETF_TYPE
           /\ n[6] = Digit(k \div 10) /\ n[7] = Digit(k % 10)
           /\ n[9] = COLOR_CHECKER_EACH_NAME[k]

\* C9 witness: a run has completed and the last single-patch file exists
C9_Witness == pc = "done" /\ SingleName(24) \in DOMAIN files

\* the stages of one run, in order
StageOrder ==
  << <<"fetch", 0>>, <<"linear", 0>>, <<"scale", 0>>, <<"oetf", 0>> >>
    \o [i \in 1..24 |-> <<"paint", i - 1>>]
    \o << <<"preview", 0>>, <<"write_all", 0>> >>
    \o [i \in 1..24 |-> <<"write", i>>]

\* C10: the stages happen in the fixed order fetch, linear RGB, brightness
\* scaling, OETF, mosaic painting, preview, mosaic file, single-patch files
\* 1..24, each once; scaling precedes the OETF, and no file is written
\* before all patches are encoded.
C10_StageOrder ==
  /\ Len(trace) <= Len(StageOrder)
  /\ \A i \in 1..Len(trace) : trace[i] = StageOrder[i]
  /\ Len0(rgb_prime) > 0 =>
       /\ DOMAIN rgb_prime = DOMAIN large_xyz
       /\ \A i \in DOMAIN rgb_prime : \A c \in 1..3 :
            /\ rgb_bright[i][c] = TARGET_BRIGHTNESS * rgb[i][c]
            /\ rgb_prime[i][c] = CallOETF(OETF_FUNC, rgb_bright[i][c])
  /\ DOMAIN files # {} => Len0(rgb_prime) > 0
  /\ pc = "done" => trace = StageOrder

\* C10 witness: a run has gone through every stage
C10_Witness == pc = "done" /\ Len(trace) = 54

====
